---- MODULE Spec2Model ----
(***************************************************************************)
(* Particle Swarm Optimization of the Rastrigin function (src/main.rs).    *)
(*                                                                         *)
(* Numbers.  The program computes in f64.  The model computes in fixed     *)
(* point: a position or velocity is an integer number of 1/Scale, so that  *)
(* LOWER_BOUND = -1.0 is -Scale and UPPER_BOUND = 1.0 is Scale.  With      *)
(* Scale = 4 every grid point is a multiple of a quarter turn, so          *)
(* cos(2*pi*x) is exactly 1, 0 or -1 and the Rastrigin value of a grid     *)
(* point is an exact integer number of 1/(Scale*Scale): fitness values are *)
(* exact, and only the velocity is rounded (to the nearest grid point, as  *)
(* f64 rounds to the nearest representable number).                        *)
(* The random scalars r1, r2 of [0,1) are r/RandLevels, r in               *)
(* 0..RandLevels-1.                                                        *)
(***************************************************************************)
EXTENDS Integers, Sequences, FiniteSets, TLC

\* ---- bounds of the model (the program runs 30 particles, 100 sweeps, 10 dimensions)
MaxParticles == 2      \* the swarm holds 1..MaxParticles particles
ITERATIONS == 2        \* sweeps of run_pso
PARAMETERS == 2        \* dimensions of a position
RandLevels == 2        \* r1, r2 are drawn from {0/RandLevels, .., (RandLevels-1)/RandLevels}

\* ---- program constants
Scale == 4             \* grid points per 1.0
C1 == 13               \* 1.3, in tenths
C2 == 11               \* 1.1, in tenths
W == 9                 \* 0.9, in tenths
LOWER_BOUND == -Scale  \* -1.0
UPPER_BOUND == Scale   \*  1.0
PENALTY_FACTOR == 10000

FitUnit == Scale * Scale            \* fitness values are integers of 1/FitUnit
Dims == 1..PARAMETERS

\* the positions and velocities init_swarm is let to draw, all inside
\* [LOWER_BOUND, UPPER_BOUND): -0.75, 0.0, 0.5 and -1.0, 0.75
InitPos == {-3, 0, 2}
InitVel == {LOWER_BOUND, UPPER_BOUND - 1}

VARIABLES
    particles,   \* swarm.particles: sequence of [x, vx, pbest_x, pbest]
    gbest_x,     \* swarm.gbest_x
    gbest,       \* swarm.gbest
    pc,          \* position in run_pso: "update", "save", "report", "done", "aborted"
    it,          \* the sweep index of the outer loop
    i,           \* the particle index of the inner loop (1-based)
    csv,         \* the records this run appended to the progress log
    console,     \* the progress and final lines this run printed
    upd,         \* history: what the latest particle update read and computed
    trace,       \* history: the particle updates done, as <<it, i>>
    pbest0,      \* history: every particle's pbest as init_swarm left it
    sweepStart   \* history: the global best when the current sweep began

vars == <<particles, gbest_x, gbest, pc, it, i, csv, console, upd, trace, pbest0, sweepStart>>

swarm == <<particles, gbest_x, gbest>>

\* ---- arithmetic ----------------------------------------------------------

\* num/den rounded to the nearest integer, ties away from zero (den > 0)
Round(num, den) ==
    IF num >= 0 THEN (2 * num + den) \div (2 * den)
    ELSE -((2 * (-num) + den) \div (2 * den))

\* cos(2*pi*k/Scale) for Scale = 4
Cos2Pi(k) ==
    CASE k % Scale = 0 -> 1
      [] k % Scale = 2 -> -1
      [] OTHER -> 0

RECURSIVE RastriginSum(_, _)
RastriginSum(x, k) ==
    IF k = 0 THEN 0
    ELSE RastriginSum(x, k - 1) + (x[k] * x[k] - 10 * FitUnit * Cos2Pi(x[k]))

\* rastrigin(x), in 1/FitUnit
rastrigin(x) == 10 * Len(x) * FitUnit + RastriginSum(x, Len(x))

\* ---- one particle update (run_pso, the body of the inner loop) -------------

\* the new velocity of one dimension
Velocity(v, pb, x, gb, r1, r2) ==
    Round(W * RandLevels * v + C1 * r1 * (pb - x) + C2 * r2 * (gb - x),
          10 * RandLevels)

ClampDimNoUpper(nx, nv) ==
    IF nx < LOWER_BOUND THEN [x |-> LOWER_BOUND, vx |-> 0, clamped |-> TRUE]
    ELSE [x |-> nx, vx |-> nv, clamped |-> FALSE]

\* the boundary clamp of one dimension: nx is the position after the move
ClampDim(nx, nv) ==
    IF nx < LOWER_BOUND THEN [x |-> LOWER_BOUND, vx |-> 0, clamped |-> TRUE]
    ELSE IF nx > UPPER_BOUND THEN [x |-> UPPER_BOUND, vx |-> 0, clamped |-> TRUE]
    ELSE [x |-> nx, vx |-> nv, clamped |-> FALSE]

\* the position of dimension d after the move, before the clamp
RawX(p, gx, r1, r2, d) ==
    p.x[d] + Velocity(p.vx[d], p.pbest_x[d], p.x[d], gx[d], r1, r2)

\* velocity, move and clamp of dimension d
MoveDim(p, gx, r1, r2, d) ==
    ClampDim(RawX(p, gx, r1, r2, d), Velocity(p.vx[d], p.pbest_x[d], p.x[d], gx[d], r1, r2))

PenaltyOfOne == FitUnit

\* PENALTY_FACTOR, in 1/FitUnit
Penalty == PENALTY_FACTOR * FitUnit

EvaluatedFitnessPerDim(x, clamped) ==
    rastrigin(x) + Penalty * Cardinality({d \in DOMAIN clamped : clamped[d]})

\* the fitness compared with the bests: clamped[d] tells whether dimension d
\* set the penalty flag
EvaluatedFitness(x, clamped) ==
    LET penalty == \E d \in DOMAIN clamped : clamped[d]
    IN  IF penalty THEN rastrigin(x) + Penalty ELSE rastrigin(x)

ImprovesPbest(fitness, pbest) == fitness < pbest

ImprovesGbestFlipped(fitness, best) == fitness > best

ImprovesGbestOrEqual(fitness, best) == fitness <= best

ImprovesGbest(fitness, best) == fitness < best

GbestReadBatched == sweepStart

\* the global best a particle update reads
GbestRead == [x |-> gbest_x, f |-> gbest]

\* the particle after its update, and the fitness that was evaluated
UpdatedParticle(p, gx, r1, r2) ==
    LET m == [d \in Dims |-> MoveDim(p, gx, r1, r2, d)]
        x == [d \in Dims |-> m[d].x]
        vx == [d \in Dims |-> m[d].vx]
        clamped == [d \in Dims |-> m[d].clamped]
        fitness == EvaluatedFitness(x, clamped)
        better == ImprovesPbest(fitness, p.pbest)
    IN  [p |-> [x |-> x, vx |-> vx,
                pbest_x |-> IF better THEN x ELSE p.pbest_x,
                pbest |-> IF better THEN fitness ELSE p.pbest],
         fitness |-> fitness]

\* ---- init_swarm ----------------------------------------------------------

NewParticle(x, vx) == [x |-> x, vx |-> vx, pbest_x |-> x, pbest |-> rastrigin(x)]

InitGbestLast(ps) == [x |-> ps[Len(ps)].x, f |-> ps[Len(ps)].pbest]

\* the global best init_swarm sets: the first particle
InitGbest(ps) == [x |-> ps[1].x, f |-> ps[1].pbest]

NoUpdate ==
    [i |-> 0, r1 |-> 0, r2 |-> 0, gread |-> [x |-> [d \in Dims |-> 0], f |-> 0],
     raw_x |-> [d \in Dims |-> 0], fitness |-> 0]

Init ==
    /\ \E n \in 1..MaxParticles :
         \E xs \in [1..n -> [Dims -> InitPos]], vs \in [1..n -> [Dims -> InitVel]] :
            particles = [k \in 1..n |-> NewParticle(xs[k], vs[k])]
    /\ gbest_x = InitGbest(particles).x
    /\ gbest = InitGbest(particles).f
    /\ pc = IF 0 < ITERATIONS THEN "update" ELSE "report"
    /\ it = 0
    /\ i = 1
    /\ csv = <<>>
    /\ console = <<>>
    /\ upd = NoUpdate
    /\ trace = <<>>
    /\ pbest0 = [k \in 1..Len(particles) |-> particles[k].pbest]
    /\ sweepStart = [x |-> gbest_x, f |-> gbest]

\* ---- run_pso -------------------------------------------------------------

\* the update of particle i in sweep it
UpdateParticle ==
    /\ pc = "update"
    /\ \E r1 \in 0..(RandLevels - 1), r2 \in 0..(RandLevels - 1) :
         LET p == particles[i]
             g == GbestRead
             u == UpdatedParticle(p, g.x, r1, r2)
         IN  /\ particles' = [particles EXCEPT ![i] = u.p]
             /\ gbest_x' = IF ImprovesGbest(u.fitness, g.f) THEN u.p.x ELSE gbest_x
             /\ gbest' = IF ImprovesGbest(u.fitness, g.f) THEN u.fitness ELSE gbest
             /\ upd' = [i |-> i, r1 |-> r1, r2 |-> r2, gread |-> g,
                        raw_x |-> [d \in Dims |-> RawX(p, g.x, r1, r2, d)],
                        fitness |-> u.fitness]
    /\ trace' = Append(trace, <<it, i>>)
    /\ IF i < Len(particles) THEN i' = i + 1 /\ pc' = "update"
       ELSE i' = i /\ pc' = "save"
    /\ UNCHANGED <<it, csv, console, pbest0, sweepStart>>

\* the periodic progress line, printed before the record is saved
Printed == IF it % 100 = 0 THEN Append(console, <<"progress", it, gbest>>) ELSE console

AfterSaveEarly(k) == IF k + 1 < ITERATIONS - 1 THEN "update" ELSE "report"

\* where the outer loop goes after sweep k
AfterSave(k) == IF k + 1 < ITERATIONS THEN "update" ELSE "report"

OnSaveErrorIgnored(cont) == cont

\* expect() on a failed open or write panics: the run aborts
OnSaveError(cont) == "aborted"

\* save_fitness_to_csv(it, swarm.gbest) returns
SaveOk ==
    /\ pc = "save"
    /\ console' = Printed
    /\ csv' = Append(csv, <<it, gbest>>)
    /\ pc' = AfterSave(it)
    /\ it' = it + 1
    /\ i' = 1
    /\ sweepStart' = [x |-> gbest_x, f |-> gbest]
    /\ UNCHANGED <<particles, gbest_x, gbest, upd, trace, pbest0>>

\* save_fitness_to_csv fails to open the log, or to write the record
SaveFail ==
    /\ pc = "save"
    /\ console' = Printed
    /\ pc' = OnSaveError(AfterSave(it))
    /\ IF pc' = "aborted" THEN UNCHANGED <<it, i, sweepStart>>
       ELSE it' = it + 1 /\ i' = 1 /\ sweepStart' = [x |-> gbest_x, f |-> gbest]
    /\ UNCHANGED <<particles, gbest_x, gbest, csv, upd, trace, pbest0>>

\* the final report: the best fitness, then every coordinate of the best position
Report ==
    /\ pc = "report"
    /\ console' = Append(console, <<"best", gbest, gbest_x>>)
    /\ pc' = "done"
    /\ UNCHANGED <<particles, gbest_x, gbest, it, i, csv, upd, trace, pbest0, sweepStart>>

Next == UpdateParticle \/ SaveOk \/ SaveFail \/ Report

Spec == Init /\ [][Next]_vars

\* The swarms of Init whose particles all start at velocity 0.75.  Which
\* statement run_pso executes next never depends on a position, a velocity or
\* a fitness, so the shape of the run is checked from these swarms.
FairInit ==
    /\ Init
    /\ \A k \in 1..Len(particles) : \A d \in Dims : particles[k].vx[d] = UPPER_BOUND - 1

\* run_pso is one thread that runs on until it returns or panics
FairSpec == FairInit /\ [][Next]_vars /\ WF_vars(Next)

TypeOK ==
    /\ Len(particles) \in 1..MaxParticles
    /\ pc \in {"update", "save", "report", "done", "aborted"}
    /\ it \in 0..ITERATIONS
    /\ i \in 1..Len(particles)

\* ---- the claims ------------------------------------------------------------

NumParticles == Len(particles)
OutOfBounds(v) == v < LOWER_BOUND \/ v > UPPER_BOUND
FinalReported == \E k \in 1..Len(console) : console[k][1] = "best"
UpdateStep == trace' # trace
Min(a, b) == IF a <= b THEN a ELSE b

\* C1: after init_swarm and after every particle update, every component of
\* every particle's position lies within [LOWER_BOUND, UPPER_BOUND].
C1_PositionsInBounds ==
    \A k \in 1..NumParticles : \A d \in Dims :
        LOWER_BOUND <= particles[k].x[d] /\ particles[k].x[d] <= UPPER_BOUND

\* a particle moved above UPPER_BOUND in one dimension and below LOWER_BOUND in
\* another, and sits on the two bounds
C1_Witness ==
    /\ upd.i > 0
    /\ \E d \in Dims : upd.raw_x[d] > UPPER_BOUND /\ particles[upd.i].x[d] = UPPER_BOUND
    /\ \E d \in Dims : upd.raw_x[d] < LOWER_BOUND /\ particles[upd.i].x[d] = LOWER_BOUND

\* C2: no step raises gbest, and the fitness values of the progress records
\* are non-increasing in the iteration index.
C2_GbestNonIncreasing ==
    [][/\ gbest' <= gbest
       /\ \A k \in 1..(Len(csv') - 1) : csv'[k + 1][2] <= csv'[k][2]]_vars

\* two records were emitted, the second with a strictly lower global best
C2_Witness == Len(csv) >= 2 /\ csv[2][2] < csv[1][2]

\* C3: every particle's pbest is the un-penalized rastrigin of its pbest_x.
C3_PbestIsFitnessOfPbestX ==
    \A k \in 1..NumParticles : particles[k].pbest = rastrigin(particles[k].pbest_x)

\* a particle that had improved its personal best was then clamped, and its
\* penalized fitness was compared with that personal best
C3_Witness ==
    /\ upd.i > 0
    /\ \E d \in Dims : OutOfBounds(upd.raw_x[d])
    /\ upd.fitness >= Penalty
    /\ particles[upd.i].pbest < pbest0[upd.i]

\* C4: the fitness compared with the bests in a particle update is the
\* rastrigin of the clamped position plus PENALTY_FACTOR when some dimension
\* left the bounds before clamping (once, however many did), and the plain
\* rastrigin of the position when none did.
C4_PenaltyOncePerUpdate ==
    upd.i > 0 =>
        /\ upd.fitness = rastrigin(particles[upd.i].x)
              + (IF \E d \in Dims : OutOfBounds(upd.raw_x[d]) THEN Penalty ELSE 0)
        /\ particles[upd.i].pbest <= upd.fitness
        /\ gbest <= upd.fitness

\* every dimension of the updated particle was clamped (there are at least two)
C4_Witness ==
    /\ upd.i > 0
    /\ PARAMETERS >= 2
    /\ \A d \in Dims : OutOfBounds(upd.raw_x[d])

\* C5: with a single particle the global best is that particle's personal
\* best, position and fitness, after init_swarm and after every sweep.
C5_SingleParticle ==
    NumParticles = 1 =>
        /\ gbest_x = particles[1].pbest_x
        /\ gbest = particles[1].pbest

\* a single particle improved on its initial position in a completed sweep
C5_Witness == NumParticles = 1 /\ it >= 1 /\ gbest < pbest0[1]

\* the updates and records of a run so far are the loop's: particle after
\* particle, sweep after sweep, one record behind every sweep
C6_RunShape ==
    /\ \A k \in 1..Len(trace) :
          trace[k] = <<(k - 1) \div NumParticles, ((k - 1) % NumParticles) + 1>>
    /\ \A k \in 1..Len(csv) : csv[k][1] = k - 1
    /\ Len(csv) <= ITERATIONS
    /\ pc = "update" => Len(csv) = it /\ Len(trace) = it * NumParticles + (i - 1)
    /\ pc = "save" => Len(csv) = it /\ Len(trace) = (it + 1) * NumParticles
    /\ pc \in {"report", "done"} =>
          Len(csv) = ITERATIONS /\ Len(trace) = ITERATIONS * NumParticles
    /\ FinalReported <=> pc = "done"

\* C6: if reporting never fails the run ends after exactly ITERATIONS sweeps,
\* each updating particles 0..N-1 once and in order, with one progress record
\* per sweep carrying the indices 0, 1, .., ITERATIONS-1, and the final report
\* comes only after the last sweep.
C6_FixedLengthRun ==
    /\ []C6_RunShape
    /\ [](pc # "aborted") => <>(pc = "done")

\* a swarm of several particles finished its run
C6_Witness ==
    /\ pc = "done"
    /\ NumParticles >= 2
    /\ Len(csv) = ITERATIONS
    /\ Len(trace) = ITERATIONS * NumParticles

\* C7: a failed save aborts the run: nothing happens after it, no particle
\* update, no record, no final report; and a save that succeeds leaves the
\* swarm as it was.
C7_SaveFaultIsFatal ==
    /\ [](pc = "aborted" => ~FinalReported /\ Len(csv) = it)
    /\ [][/\ pc # "aborted"
          /\ pc = "save" => /\ swarm' = swarm
                            /\ csv' = csv => pc' = "aborted"
                            /\ csv' # csv => csv' = Append(csv, <<it, gbest>>)]_vars

\* the save of the second sweep failed, after the first was recorded
C7_Witness == pc = "aborted" /\ it = 1 /\ Len(csv) = 1 /\ NumParticles >= 2

FirstSweepDone == Len(trace) >= NumParticles

\* C8: once the first sweep has completed, gbest <= pbest of every particle.
C8_SeedCorrectedByFirstSweep ==
    FirstSweepDone => \A k \in 1..NumParticles : gbest <= particles[k].pbest

\* C9: a particle update reads the global best as the updates before it in the
\* same sweep left it, for its velocity and for its comparison, and writes a
\* lower global best at once.
C9_SequentialGbest ==
    [][UpdateStep =>
        /\ upd'.gread = [x |-> gbest_x, f |-> gbest]
        /\ \A d \in Dims :
              upd'.raw_x[d] = RawX(particles[i], gbest_x, upd'.r1, upd'.r2, d)
        /\ gbest' = Min(gbest, upd'.fitness)
        /\ gbest_x' = IF upd'.fitness < gbest THEN particles'[i].x ELSE gbest_x]_vars

\* a particle read a global best that an earlier particle of the same sweep
\* had lowered, at another position than the sweep began with
C9_Witness ==
    /\ upd.i >= 2
    /\ upd.gread.f < sweepStart.f
    /\ upd.gread.x # sweepStart.x

\* C10: gbest <= pbest of particle 0; for every other particle, pbest is
\* still its initial value or gbest <= pbest; no pbest ever rises; and gbest_x
\* is particle 0's initial position or the position a particle had right
\* after one of its updates.
C10_GbestVersusPbest ==
    /\ gbest_x = particles[1].x /\ gbest = particles[1].pbest
    /\ [](/\ gbest <= particles[1].pbest
          /\ \A k \in 2..NumParticles :
                particles[k].pbest = pbest0[k] \/ gbest <= particles[k].pbest)
    /\ [][/\ \A k \in 1..NumParticles : particles'[k].pbest <= particles[k].pbest
          /\ (gbest_x' # gbest_x \/ gbest' # gbest) =>
                UpdateStep /\ gbest_x' = particles'[i].x /\ gbest' = upd'.fitness]_vars

\* after a whole sweep a particle still holds its initial personal best, which
\* is lower than the global best, while the global best has moved
C10_Witness ==
    /\ FirstSweepDone
    /\ gbest_x # particles[1].x
    /\ \E k \in 2..NumParticles :
          particles[k].pbest = pbest0[k] /\ particles[k].pbest < gbest

====
